---- MODULE Spec2Model ----
(***************************************************************************)
(* The two demonstration scripts (simple_max_tokens_demo.py and            *)
(* max_tokens_example.py) driving one agent conversation: a first turn    *)
(* under a low output-token ceiling, the MaxTokensReachedException         *)
(* handler, the clearing of the tool registry and the follow-up turn.     *)
(* The scripts are translated from their source; the turn executor they   *)
(* call (agent(prompt)) is modelled from section 4.1 of the              *)
(* specification.                                                          *)
(***************************************************************************)
EXTENDS Integers, Sequences, FiniteSets, TLC

VARIABLES script, pc, agent, state, pending, outcomes, turns, has_error_message

vars == <<script, pc, agent, state, pending, outcomes, turns, has_error_message>>

(***************************************************************************)
(* Bounds of the backend's behaviour.                                      *)
(***************************************************************************)
\* the backend's intended output has 1..MaxParts content parts
MaxParts == 2
\* its token count lies within MaxExtraTokens of the ceiling, on either side
MaxExtraTokens == 1

(***************************************************************************)
(* Program constants.                                                      *)
(***************************************************************************)
\* BedrockModel(max_tokens=100)
max_tokens == 100

Scripts == {"simple", "example"}

\* tools=[story_tool] / tools=[write_story, get_weather]
Tools(s) == IF s = "simple" THEN {"story_tool"} ELSE {"write_story", "get_weather"}

\* the prompt of the first and of the follow-up call
Prompt(s, p) ==
    IF s = "simple"
    THEN (IF p = "call1" THEN <<"Tell me a story!">> ELSE <<"What is 3+3">>)
    ELSE (IF p = "call1"
          THEN <<"Write me a very long adventure story about dragons and wizards">>
          ELSE <<"What is 2 + 2?">>)

\* expected_text, as a sequence of words
expected_text_typo ==
    <<"tool", "use", "was", "incomplete", "due", "to", "max", "token",
      "limits", "being", "reached">>
expected_text ==
    <<"tool", "use", "was", "incomplete", "due", "to", "maximum", "token",
      "limits", "being", "reached">>

(***************************************************************************)
(* Messages and content parts.                                             *)
(***************************************************************************)
Roles == {"user", "assistant"}

TextPart(t) == [text |-> t]
ToolUsePart(n, c) == [toolUse |-> [name |-> n, complete |-> c]]

IsText(p) == "text" \in DOMAIN p
IsToolUse(p) == "toolUse" \in DOMAIN p

Message(r, c) == [role |-> r, content |-> c]

\* Python's `sub in text` on strings, on sequences of words
Contains(sub, text) ==
    \E i \in 0..(Len(text) - Len(sub)) : SubSeq(text, i + 1, i + Len(sub)) = sub

\* all_text = [...]; has_error_message = any(expected_text in text ...)
HasErrorMessage(messages) ==
    \E i \in 1..Len(messages) :
        \E j \in 1..Len(messages[i].content) :
            /\ IsText(messages[i].content[j])
            /\ Contains(expected_text, messages[i].content[j].text)

(***************************************************************************)
(* The backend: its intended output for one turn.                          *)
(***************************************************************************)
Texts == { <<"4">>, <<"Once", "upon", "a", "time">> }

\* a tool invocation can only name a tool of the registry
PartChoices(registry) ==
    {TextPart(t) : t \in Texts} \cup {ToolUsePart(n, TRUE) : n \in registry}

SeqsUpTo(S, n) == UNION {[1..k -> S] : k \in 1..n}

TokenChoices == (max_tokens - MaxExtraTokens)..(max_tokens + MaxExtraTokens)

BackendOutputs(registry) ==
    [parts : SeqsUpTo(PartChoices(registry), MaxParts), tokens : TokenChoices]

NoOutput == [parts |-> <<>>, tokens |-> 0]

Exceeds(out, ceiling) == out.tokens > ceiling

(***************************************************************************)
(* The turn executor.                                                      *)
(***************************************************************************)
\* the user prompt enters the transcript when the turn starts
WithPrompt(messages, prompt) == Append(messages, Message("user", <<TextPart(prompt)>>))

\* a part cut off by the ceiling
CutPart(p) ==
    IF IsText(p)
    THEN TextPart(SubSeq(p.text, 1, Len(p.text) - 1))
    ELSE ToolUsePart(p.toolUse.name, FALSE)

\* what had been generated when the ceiling was reached: k-1 whole parts
\* and the k-th one cut off
PartialContent(parts, k) == Append(SubSeq(parts, 1, k - 1), CutPart(parts[k]))

\* the text of the synthetic follow-up Message
TruncationPhrase ==
    <<"tool", "use", "was", "incomplete", "due", "to", "maximum", "token",
      "limits", "being", "reached">>

SyntheticMessage(r) == Message(r, <<TextPart(TruncationPhrase)>>)

CompletedTranscript_Extra(messages, out) ==
    messages \o << Message("assistant", out.parts), SyntheticMessage("user") >>
CompletedTranscript(messages, out) ==
    Append(messages, Message("assistant", out.parts))

TruncatedTranscript_Swapped(messages, out, k, r) ==
    messages \o << SyntheticMessage(r), Message("assistant", PartialContent(out.parts, k)) >>
TruncatedTranscript(messages, out, k, r) ==
    messages \o << Message("assistant", PartialContent(out.parts, k)), SyntheticMessage(r) >>

(***************************************************************************)
(* The scripts' control flow.                                              *)
(***************************************************************************)
\* agent(...) is a blocking call: the script waits in it
PcAfterCall_NoWait(p) == IF p = "call1" THEN "clear" ELSE "await2"
PcAfterCall(p) == IF p = "call1" THEN "await1" ELSE "await2"

\* the call returns: the statement after it runs
PcOnReturn_AlwaysRecover(p) == IF p = "await1" THEN "handler" ELSE "recovered"
PcOnReturn(p) == IF p = "await1" THEN "success" ELSE "recovered"

\* the call raises MaxTokensReachedException: the first call is in a try
\* with an except MaxTokensReachedException clause; the second one is in
\* that handler, inside try/except Exception in max_tokens_example.py only
PcOnRaise_Swallowed(s, p) ==
    IF p = "await1" THEN "success"
    ELSE IF s = "example" THEN "recovery_failed" ELSE "crashed"
PcOnRaise_NoHandler(s, p) ==
    IF p = "await1" THEN "crashed"
    ELSE IF s = "example" THEN "recovery_failed" ELSE "crashed"
PcOnRaise(s, p) ==
    IF p = "await1" THEN "handler"
    ELSE IF s = "example" THEN "recovery_failed" ELSE "crashed"

\* agent.tool_registry.registry = {}; agent.tool_registry.tool_config = {}
ClearTools_KeepRegistry(a) == [a EXCEPT !.tool_config = {}]
ClearTools_Reset(a) == [a EXCEPT !.registry = {}, !.tool_config = {}, !.messages = <<>>]
ClearTools_Rewrite(a) ==
    [a EXCEPT !.registry = {}, !.tool_config = {},
              !.messages = [i \in 1..Len(a.messages) |->
                               Message(a.messages[i].role, <<TextPart(<<>>)>>)]]
ClearTools(a) == [a EXCEPT !.registry = {}, !.tool_config = {}]

(***************************************************************************)
(* Initial state: the agent as constructed, before the first call.         *)
(***************************************************************************)
Init ==
    /\ script \in Scripts
    /\ pc = "call1"
    /\ agent = [messages |-> <<>>, registry |-> Tools(script), tool_config |-> Tools(script)]
    /\ state = "Idle"
    /\ pending = NoOutput
    /\ outcomes = <<>>
    /\ turns = 0
    /\ has_error_message = FALSE

(***************************************************************************)
(* Actions.                                                                *)
(***************************************************************************)
\* agent("...") is entered: the turn starts and the backend settles on what
\* it would answer with the tools the registry holds
Call ==
    /\ pc \in {"call1", "call2"}
    /\ state = "Idle"
    /\ \E out \in BackendOutputs(agent.registry) : pending' = out
    /\ agent' = [agent EXCEPT !.messages = WithPrompt(@, Prompt(script, pc))]
    /\ state' = "AwaitingResponse"
    /\ turns' = turns + 1
    /\ pc' = PcAfterCall(pc)
    /\ UNCHANGED <<script, outcomes, has_error_message>>

\* the response fits the ceiling: the call returns
Complete ==
    /\ pc \in {"await1", "await2"}
    /\ state = "AwaitingResponse"
    /\ ~Exceeds(pending, max_tokens)
    /\ agent' = [agent EXCEPT !.messages = CompletedTranscript(@, pending)]
    /\ outcomes' = Append(outcomes, "completed")
    /\ state' = "Idle"
    /\ pc' = PcOnReturn(pc)
    /\ UNCHANGED <<script, pending, turns, has_error_message>>

\* the response is cut off: the call raises MaxTokensReachedException
Truncate ==
    /\ pc \in {"await1", "await2"}
    /\ state = "AwaitingResponse"
    /\ Exceeds(pending, max_tokens)
    /\ \E k \in 1..Len(pending.parts) : \E r \in Roles :
           agent' = [agent EXCEPT !.messages = TruncatedTranscript(@, pending, k, r)]
    /\ outcomes' = Append(outcomes, "truncated")
    /\ state' = "Idle"
    /\ pc' = PcOnRaise(script, pc)
    /\ UNCHANGED <<script, pending, turns, has_error_message>>

\* the print after the first call
PrintSuccess ==
    /\ pc = "success"
    /\ pc' = "done"
    /\ UNCHANGED <<script, agent, state, pending, outcomes, turns, has_error_message>>

\* the except branch up to the recovery: the transcript is printed and, in
\* simple_max_tokens_demo.py, searched for expected_text
Inspect ==
    /\ pc = "handler"
    /\ has_error_message' =
           IF script = "simple" THEN HasErrorMessage(agent.messages) ELSE has_error_message
    /\ pc' = "clear"
    /\ UNCHANGED <<script, agent, state, pending, outcomes, turns>>

\* the registry and its tool configuration are replaced by empty mappings
Clear ==
    /\ pc = "clear"
    /\ agent' = ClearTools(agent)
    /\ pc' = "call2"
    /\ UNCHANGED <<script, state, pending, outcomes, turns, has_error_message>>

\* recovery_result.message['content'][0]['text'] is printed
PrintRecovery ==
    /\ pc = "recovered"
    /\ LET message == agent.messages[Len(agent.messages)]
       IN  pc' = IF Len(message.content) > 0 /\ IsText(message.content[1])
                 THEN "done"
                 ELSE IF script = "example" THEN "recovery_failed" ELSE "crashed"
    /\ UNCHANGED <<script, agent, state, pending, outcomes, turns, has_error_message>>

\* except Exception as recovery_error (max_tokens_example.py)
PrintRecoveryFailed ==
    /\ pc = "recovery_failed"
    /\ pc' = "done"
    /\ UNCHANGED <<script, agent, state, pending, outcomes, turns, has_error_message>>

Next ==
    \/ Call
    \/ Complete
    \/ Truncate
    \/ PrintSuccess
    \/ Inspect
    \/ Clear
    \/ PrintRecovery
    \/ PrintRecoveryFailed

Spec == Init /\ [][Next]_vars

\* the interpreter runs the script statement after statement and the
\* blocking call returns or raises
FairSpec == Spec /\ WF_vars(Next)

(***************************************************************************)
(* Properties.                                                             *)
(***************************************************************************)
Last(s) == s[Len(s)]

IsPrefix(s, t) == Len(s) <= Len(t) /\ SubSeq(t, 1, Len(s)) = s

\* the phrase callers test against, word by word
ExactPhrase ==
    <<"tool", "use", "was", "incomplete", "due", "to", "maximum", "token",
      "limits", "being", "reached">>

IsSynthetic(m) == m.content = <<TextPart(ExactPhrase)>>

ToolUseCount(m) == Cardinality({j \in 1..Len(m.content) : IsToolUse(m.content[j])})

HasIncompleteToolUse(m) ==
    \E j \in 1..Len(m.content) :
        IsToolUse(m.content[j]) /\ ~m.content[j].toolUse.complete

\* the turn that was started last has returned
TurnReturned == state = "Idle" /\ turns > 0 /\ Len(outcomes) = turns

\* C1: a turn whose backend output exceeds the ceiling ends truncated, and
\* when it has returned the last Message of the transcript has exactly the
\* truncation phrase as its text; the search of simple_max_tokens_demo.py
\* for expected_text then finds it.
C1_TruncatedEndsWithPhrase ==
    /\ (state = "Idle" /\ turns > 0 /\ Exceeds(pending, max_tokens)) =>
           /\ Len(outcomes) = turns
           /\ outcomes[turns] = "truncated"
           /\ Len(Last(agent.messages).content) = 1
           /\ IsText(Last(agent.messages).content[1])
           /\ Last(agent.messages).content[1].text = ExactPhrase
    /\ (script = "simple" /\ pc \in {"clear", "call2"}) => has_error_message

C1_Witness ==
    /\ script = "simple"
    /\ pc = "clear"
    /\ pending.tokens = max_tokens + 1
    /\ outcomes = <<"truncated">>
    /\ has_error_message

\* C2: a turn whose backend output fits the ceiling ends completed; it
\* appends exactly one Message, an assistant Message carrying the response,
\* and no synthetic truncation Message.
C2_CompletedAppendsOne ==
    [][ (state = "AwaitingResponse" /\ ~Exceeds(pending, max_tokens) /\ state' = "Idle") =>
            /\ outcomes' = Append(outcomes, "completed")
            /\ agent'.messages =
                   Append(agent.messages, Message("assistant", pending.parts))
            /\ \A i \in (Len(agent.messages) + 1)..Len(agent'.messages) :
                   ~IsSynthetic(agent'.messages[i]) ]_vars

C2_Witness ==
    /\ TurnReturned
    /\ pending.tokens = max_tokens
    /\ outcomes = <<"completed">>
    /\ Len(agent.messages) = 2
    /\ Last(agent.messages).role = "assistant"

C4_TranscriptNeverShrinks ==
    [][Len(agent'.messages) >= Len(agent.messages)]_vars

C4_Witness ==
    /\ pc = "call2"
    /\ agent.registry = {}
    /\ Len(agent.messages) = 3

\* C5: once the registry has been cleared, the Messages of a subsequent
\* completed turn hold no tool-invocation content part.
C5_NoToolUseAfterClear ==
    (turns = 2 /\ Len(outcomes) = 2 /\ outcomes[2] = "completed") =>
        \A i \in 4..Len(agent.messages) : ToolUseCount(agent.messages[i]) = 0

C5_Witness ==
    /\ turns = 2
    /\ outcomes = <<"truncated", "completed">>
    /\ agent.registry = {}
    /\ ToolUseCount(agent.messages[2]) > 0
    /\ ToolUseCount(Last(agent.messages)) = 0

C7_PartialThenSynthetic ==
    /\ (TurnReturned /\ Last(outcomes) = "truncated") =>
           LET n == Len(agent.messages)
           IN  /\ n >= 3
               /\ IsSynthetic(agent.messages[n])
               /\ agent.messages[n - 1].role = "assistant"
               /\ \E k \in 1..Len(pending.parts) :
                      agent.messages[n - 1].content = PartialContent(pending.parts, k)
    /\ state = "Idle" =>
           \A i \in 1..Len(agent.messages) :
               HasIncompleteToolUse(agent.messages[i]) =>
                   /\ i < Len(agent.messages)
                   /\ IsSynthetic(agent.messages[i + 1])

C7_Witness ==
    /\ TurnReturned
    /\ outcomes = <<"truncated">>
    /\ Len(agent.messages) = 3
    /\ HasIncompleteToolUse(agent.messages[2])
    /\ IsSynthetic(agent.messages[3])

\* C8: the clearing of the registry leaves the transcript as it is, and
\* every step leaves the Messages already in the transcript identical: the
\* transcript before a step is a prefix of the transcript after it.
C8_TranscriptIsPrefix ==
    [][ /\ IsPrefix(agent.messages, agent'.messages)
        /\ (agent'.registry # agent.registry \/ agent'.tool_config # agent.tool_config)
               => agent'.messages = agent.messages ]_vars

C8_Witness ==
    /\ turns = 2
    /\ TurnReturned
    /\ agent.registry = {}
    /\ agent.tool_config = {}
    /\ HasIncompleteToolUse(agent.messages[2])
    /\ Len(agent.messages) = 6

\* C9: the registry and its tool configuration change only in a step that
\* starts and ends with the conversation Idle; while a turn is in
\* AwaitingResponse they stay as they were when it started.
C9_RegistryChangesOnlyWhenIdle ==
    [][ /\ (agent'.registry # agent.registry \/ agent'.tool_config # agent.tool_config)
               => (state = "Idle" /\ state' = "Idle")
        /\ state = "AwaitingResponse"
               => (agent'.registry = agent.registry
                       /\ agent'.tool_config = agent.tool_config) ]_vars

C9_Witness ==
    /\ state = "AwaitingResponse"
    /\ turns = 2
    /\ agent.registry = {}
    /\ agent.tool_config = {}

\* C10: in both scripts at most two turns are issued; a second turn is
\* issued only after a truncated first turn and starts with the registry
\* and its tool configuration both empty; after a completed first turn no
\* further turn is issued and the registry keeps its tools.
C10_RecoveryOnlyOnTruncatedBranch ==
    /\ turns <= 2
    /\ (Len(outcomes) >= 1 /\ outcomes[1] = "completed") =>
           /\ turns = 1
           /\ pc \in {"success", "done"}
           /\ agent.registry = Tools(script)
           /\ agent.tool_config = Tools(script)
    /\ (turns = 2 \/ pc = "call2") =>
           /\ outcomes[1] = "truncated"
           /\ agent.registry = {}
           /\ agent.tool_config = {}
    /\ (agent.registry # Tools(script) \/ agent.tool_config # Tools(script)) =>
           (Len(outcomes) >= 1 /\ outcomes[1] = "truncated")

C10_Witness ==
    /\ pc = "done"
    /\ turns = 1
    /\ outcomes = <<"completed">>
    /\ agent.registry = Tools(script)

====
